---- MODULE Spec2Model ----
(***************************************************************************)
(* A model of hashflow/helpers/api.py: the HashflowApi client, its         *)
(* constructor, its session scope (__aenter__ / __aexit__) and its three   *)
(* request coroutines, get_market_makers, get_price_levels, request_quote. *)
(*                                                                         *)
(* Python values.  An optional value is a tuple: None is << >> and the     *)
(* value v is <<v>>.  A chain id argument is a tagged value                *)
(* [v |-> n, t |-> "int"] (the int n), [v |-> n, t |-> "float"] (the       *)
(* float n + 0.5) or [v |-> n, t |-> "str"] (the decimal string of n).     *)
(* A dict is a function from its keys.  Records list their fields in the   *)
(* order TLC keeps them in.                                                *)
(*                                                                         *)
(* A coroutine runs in two steps: the call runs the code up to the         *)
(* request (`async with self.session.get(...) as r`), where it suspends;   *)
(* the second step is the arrival of the response, a transport failure or  *)
(* a cancellation, which finishes it.                                      *)
(***************************************************************************)
EXTENDS Integers, Sequences, FiniteSets, TLC

\* ---------------------------------------------------------------- bounds
\* The largest integer chain id the callers pass.
MaxChainId == 2
\* The number of aiohttp sessions one client creates in a run.
MaxSessions == 2

\* ------------------------------------------------------- Python values
None == << >>
Some(v) == <<v>>

Int_(n) == [v |-> n, t |-> "int"]
Float_(n) == [v |-> n, t |-> "float"]
Str_(n) == [v |-> n, t |-> "str"]

Digits == <<"0", "1", "2", "3", "4", "5", "6", "7", "8", "9">>

RECURSIVE NatToStr(_)
NatToStr(n) ==
    IF n < 10 THEN Digits[n + 1] ELSE NatToStr(n \div 10) \o Digits[(n % 10) + 1]

IntToStr(n) == IF n < 0 THEN "-" \o NatToStr(0 - n) ELSE NatToStr(n)

\* Python's str() of a chain id argument.
str(chain_id) ==
    CASE chain_id.t = "int" -> IntToStr(chain_id.v)
      [] chain_id.t = "float" -> IntToStr(chain_id.v) \o ".5"
      [] OTHER -> IntToStr(chain_id.v)

\* Python truth of an optional string: None and "" are false.
TruthyStr(o) == o # None /\ o[1] # ""

\* Python truth of an optional chain id: None and the int 0 are false (a
\* float n + 0.5 and a decimal string are never zero or empty).
TruthyChain(o) == o # None /\ ~(o[1].t = "int" /\ o[1].v = 0)

\* ------------------------------------------------------------- the state
VARIABLES
    ctor,       \* the arguments of HashflowApi(mode, name, auth_key, environment)
    status,     \* "pending" (not yet constructed), "constructed", "failed"
    headers,    \* self.headers
    host,       \* self.host
    source,     \* self.source
    wallet,     \* self.wallet
    session,    \* self.session: None while the attribute is not set, else
                \* Some(i), the i-th session the client created
    sessions,   \* the aiohttp sessions created so far: "open" or "closed"
    depth,      \* the number of `async with api` scopes entered and not exited
    nested,     \* whether a scope was ever entered inside another one
    tasks       \* the caller's tasks: each idle, suspended in a request, or done

config == <<headers, host, source, wallet>>
scope == <<session, sessions, depth, nested>>
vars == <<ctor, status, headers, host, source, wallet, session, sessions, depth, nested, tasks>>

\* ------------------------------------------------------------ input sets
Modes == {"wallet", "taker", "maker"}
Environments == {"production", "staging", "development"}
Names == {"qa"}
AuthKeys == {"key-1"}

Tasks == {"t1", "t2"}
\* A caller that awaits each call before the next uses one task.
SeqTasks == {"t1"}

Idle == [pc |-> "idle"]

\* ------------------------------------------------------------ __init__
\* __init__ raising InvalidUsage where the mode is not recognised is dropped:
\* any other mode is taken as taker.
__init___lenient(mode, name, auth_key, environment) ==
    /\ status = "pending"
    /\ headers' = Some([Authorization |-> auth_key])
    /\ IF environment = "production"
       THEN /\ host' = Some("https://api.hashflow.com")
            /\ status' = "constructed"
            /\ source' = Some(IF mode = "wallet" THEN "api" ELSE name)
            /\ wallet' = IF mode = "wallet" THEN Some(name) ELSE None
       ELSE IF environment = "staging"
       THEN /\ host' = Some("https://api-staging.hashflow.com")
            /\ status' = "constructed"
            /\ source' = Some(IF mode = "wallet" THEN "api" ELSE name)
            /\ wallet' = IF mode = "wallet" THEN Some(name) ELSE None
       ELSE /\ status' = "failed"
            /\ UNCHANGED <<host, source, wallet>>
    /\ UNCHANGED <<ctor, scope, tasks>>

\* HashflowApi.__init__: the assignments in the order of the code; a raise
\* leaves the attributes assigned so far and yields no object ("failed").
__init__(mode, name, auth_key, environment) ==
    /\ status = "pending"
    /\ headers' = Some([Authorization |-> auth_key])
    /\ IF environment \notin {"production", "staging"}
       THEN \* raise InvalidUsage(f"Invalid value {environment} for environment")
            /\ status' = "failed"
            /\ UNCHANGED <<host, source, wallet>>
       ELSE /\ host' = IF environment = "production"
                       THEN Some("https://api.hashflow.com")
                       ELSE Some("https://api-staging.hashflow.com")
            /\ IF mode = "wallet"
               THEN /\ source' = Some("api")
                    /\ wallet' = Some(name)
                    /\ status' = "constructed"
               ELSE IF mode = "taker"
               THEN /\ source' = Some(name)
                    /\ wallet' = None
                    /\ status' = "constructed"
               ELSE \* raise InvalidUsage(f"Invalid value {mode} for mode")
                    /\ status' = "failed"
                    /\ UNCHANGED <<source, wallet>>
    /\ UNCHANGED <<ctor, scope, tasks>>

\* ------------------------------------------------- __aenter__ / __aexit__
\* __aenter__: self.session = aiohttp.ClientSession(); the session it
\* replaces, if any, is not closed.
__aenter__ ==
    /\ status = "constructed"
    /\ Len(sessions) < MaxSessions
    /\ sessions' = Append(sessions, "open")
    /\ session' = Some(Len(sessions) + 1)
    /\ nested' = (nested \/ depth > 0)
    /\ depth' = depth + 1
    /\ UNCHANGED <<ctor, status, config, tasks>>

\* __aexit__ that leaves the session open.
__aexit___noclose ==
    /\ status = "constructed"
    /\ depth > 0
    /\ depth' = depth - 1
    /\ UNCHANGED <<ctor, status, config, session, sessions, nested, tasks>>

\* __aexit__: await self.session.close(), on the session self.session names
\* now; closing a closed session does nothing.  Python runs it on every way
\* out of the `async with` body, so it is enabled whatever the tasks did.
__aexit__ ==
    /\ status = "constructed"
    /\ depth > 0
    /\ sessions' = [sessions EXCEPT ![session[1]] = "closed"]
    /\ depth' = depth - 1
    /\ UNCHANGED <<ctor, status, config, session, nested, tasks>>

\* ------------------------------------------------------ HTTP collaborator
\* The caller's inputs, shared by both specifications.
Wallets == {None, Some(""), Some("0xA")}
Makers == {None, Some("mm5")}
EffectiveTraders == {None, Some(""), Some("0xB")}

\* The JSON documents and bodies a server sends.
GoodDoc == [marketMakers |-> <<"mm5", "mm4">>, levels |-> <<"lvl2", "lvl1">>]
ErrDoc == [error |-> <<"denied">>]
HtmlDoc == [html |-> <<"<h1>error</h1>">>]
Statuses == {200, 304, 404}

Reason(code) ==
    CASE code = 200 -> "OK"
      [] code = 304 -> "Not Modified"
      [] OTHER -> "Not Found"

Response(code, ctype, doc) ==
    [status |-> code, ctype |-> ctype, reason |-> Reason(code), body |-> doc]

Responses ==
    {Response(c, "application/json", d) : c \in Statuses, d \in {GoodDoc, ErrDoc}}
        \cup {Response(c, "text/html", HtmlDoc) : c \in Statuses}

\* How a finished coroutine ended: a returned value, or a raised exception
\* with the fields the exception object carries.
Return(v) ==
    [status |-> None, body |-> None, kind |-> "return", exc |-> "",
     message |-> None, value |-> Some(v)]

Raise(exc) ==
    [status |-> None, body |-> None, kind |-> "raise", exc |-> exc,
     message |-> None, value |-> None]

\* aiohttp.ClientResponseError(request_info, history, status=, message=,
\* headers=): it has the status and the reason, and no field for the body.
ClientResponseError(r) ==
    [status |-> Some(r.status), body |-> None, kind |-> "raise",
     exc |-> "ClientResponseError", message |-> Some(r.reason), value |-> None]

\* aiohttp.ContentTypeError, raised by r.json() on a body that is not JSON.
ContentTypeError(r) ==
    [status |-> Some(r.status), body |-> None, kind |-> "raise",
     exc |-> "ContentTypeError",
     message |-> Some("Attempt to decode JSON with unexpected mimetype"),
     value |-> None]

\* r.raise_for_status() left out: no status raises.
raise_for_status_never(r) == None

\* r.raise_for_status(): aiohttp raises ClientResponseError when the status
\* is 400 or more (`if not self.ok`, ok being 400 > status); the result is
\* the exception raised, None when it returns.
raise_for_status(r) ==
    IF r.status >= 400 THEN Some(ClientResponseError(r)) ELSE None

\* `json = await r.json(); return json[key]`, after raise_for_status.
JsonField(r, key) ==
    IF raise_for_status(r) # None THEN raise_for_status(r)[1]
    ELSE IF r.ctype # "application/json" THEN ContentTypeError(r)
    ELSE IF key \notin DOMAIN r.body THEN Raise("KeyError")
    ELSE Return(r.body[key])

\* `return await r.json()`, after raise_for_status.
JsonBody(r) ==
    IF raise_for_status(r) # None THEN raise_for_status(r)[1]
    ELSE IF r.ctype # "application/json" THEN ContentTypeError(r)
    ELSE Return(r.body)

\* ------------------------------------------------------------ the tasks
\* Whether self.session names a session that is open.
SessionOpen == session # None /\ sessions[session[1]] = "open"

\* A coroutine that raised before any request.
Failed(op, in, exc) ==
    [pc |-> "done", op |-> op, in |-> in, open |-> SessionOpen, nreq |-> 0,
     req |-> None, resp |-> None, outcome |-> Some(Raise(exc))]

\* `async with self.session.get(url, headers=self.headers, params=params)`
\* or `.post(url, json=data, headers=self.headers)`: AttributeError while the
\* client has no session attribute; aiohttp's RuntimeError("Session is
\* closed") on a closed session; else the request goes out and the coroutine
\* suspends until the response.
Request(op, in, method, path, params, json) ==
    IF session = None THEN Failed(op, in, "AttributeError")
    ELSE IF sessions[session[1]] = "closed" THEN Failed(op, in, "RuntimeError")
    ELSE [pc |-> "waiting", op |-> op, in |-> in, open |-> TRUE, nreq |-> 1,
          req |-> Some([headers |-> headers[1], method |-> method,
                        params |-> params, json |-> json,
                        url |-> host[1] \o path, sess |-> session[1]]),
          resp |-> None, outcome |-> None]

\* A task may start a call when it is not suspended in one.
CanCall(t) == status = "constructed" /\ tasks[t].pc # "waiting"

\* .helpers.validation.validate_chain_id: whether the chain id passes, a
\* positive integer; otherwise it raises ValidationError.
validate_chain_id(chain_id) == chain_id.t = "int" /\ chain_id.v > 0

\* ------------------------------------------------------ get_market_makers
\* The params dict with the wallet taken from the client's default when the
\* argument is not given.
get_market_makers_params_default(chain_id, wallet_arg, market_maker) ==
    LET w == IF wallet_arg # None THEN wallet_arg ELSE wallet
        keys == {"source", "baseChainType", "baseChainId"}
                    \cup (IF w # None THEN {"wallet"} ELSE {})
                    \cup (IF market_maker # None THEN {"marketMaker"} ELSE {})
    IN  [k \in keys |->
            CASE k = "source" -> source[1]
              [] k = "baseChainType" -> "evm"
              [] k = "baseChainId" -> str(chain_id)
              [] k = "wallet" -> w[1]
              [] OTHER -> market_maker[1]]

\* The params dict of get_market_makers.
get_market_makers_params(chain_id, wallet_arg, market_maker) ==
    LET keys == {"source", "baseChainType", "baseChainId"}
                    \cup (IF wallet_arg # None THEN {"wallet"} ELSE {})
                    \cup (IF market_maker # None THEN {"marketMaker"} ELSE {})
    IN  [k \in keys |->
            CASE k = "source" -> source[1]
              [] k = "baseChainType" -> "evm"
              [] k = "baseChainId" -> str(chain_id)
              [] k = "wallet" -> wallet_arg[1]
              [] OTHER -> market_maker[1]]

\* get_market_makers without the call of validate_chain_id.
get_market_makers_unchecked(t, chain_id, wallet_arg, market_maker) ==
    LET in == [chain_id |-> chain_id, wallet |-> wallet_arg, market_maker |-> market_maker]
    IN  /\ CanCall(t)
        /\ tasks' = [tasks EXCEPT ![t] =
              Request("get_market_makers", in, "GET", "/taker/v3/market-makers",
                      Some(get_market_makers_params(chain_id, wallet_arg, market_maker)),
                      None)]
        /\ UNCHANGED <<ctor, status, config, scope>>

\* get_market_makers, up to the request.
get_market_makers(t, chain_id, wallet_arg, market_maker) ==
    LET in == [chain_id |-> chain_id, wallet |-> wallet_arg, market_maker |-> market_maker]
    IN  /\ CanCall(t)
        /\ tasks' = [tasks EXCEPT ![t] =
              IF ~validate_chain_id(chain_id)
              THEN Failed("get_market_makers", in, "ValidationError")
              ELSE Request("get_market_makers", in, "GET", "/taker/v3/market-makers",
                           Some(get_market_makers_params(chain_id, wallet_arg, market_maker)),
                           None)]
        /\ UNCHANGED <<ctor, status, config, scope>>

\* get_market_makers from the response on: raise_for_status, json,
\* json["marketMakers"].
get_market_makers_result(r) == JsonField(r, "marketMakers")

\* ------------------------------------------------------- get_price_levels
\* The params dict of get_price_levels: the client's wallet when it has one.
get_price_levels_params(chain_id, market_makers) ==
    LET keys == {"source", "baseChainId", "baseChainType", "marketMakers[]"}
                    \cup (IF wallet # None THEN {"wallet"} ELSE {})
    IN  [k \in keys |->
            CASE k = "source" -> <<source[1]>>
              [] k = "baseChainId" -> <<str(chain_id)>>
              [] k = "baseChainType" -> <<"evm">>
              [] k = "marketMakers[]" -> market_makers
              [] OTHER -> <<wallet[1]>>]

\* get_price_levels, up to the request.
get_price_levels(t, chain_id, market_makers) ==
    LET in == [chain_id |-> chain_id, market_makers |-> market_makers]
    IN  /\ CanCall(t)
        /\ tasks' = [tasks EXCEPT ![t] =
              IF ~validate_chain_id(chain_id)
              THEN Failed("get_price_levels", in, "ValidationError")
              ELSE Request("get_price_levels", in, "GET", "/taker/v3/price-levels",
                           Some(get_price_levels_params(chain_id, market_makers)),
                           None)]
        /\ UNCHANGED <<ctor, status, config, scope>>

\* get_price_levels from the response on.
get_price_levels_result(r) == JsonField(r, "levels")

\* ---------------------------------------------------------- request_quote
\* The trader with the two wallets the other way round.
Trader_default_first(wallet_arg) == IF wallet # None THEN wallet ELSE wallet_arg

\* trader = wallet if wallet is not None else self.wallet
Trader(wallet_arg) == IF wallet_arg # None THEN wallet_arg ELSE wallet

\* "effectiveTrader": effective_trader or trader
EffectiveTrader(effective_trader, trader) ==
    IF TruthyStr(effective_trader) THEN effective_trader ELSE trader

\* "chainId": dst_chain_id or chain_id
QuoteChainId(dst_chain_id, chain_id) ==
    IF TruthyChain(dst_chain_id) THEN dst_chain_id[1] ELSE chain_id

\* The JSON body of the rfq request; null is None.
request_quote_data(in, trader) ==
    [source |-> source[1],
     baseChain |-> [chainType |-> "evm", chainId |-> in.chain_id],
     quoteChain |-> [chainType |-> "evm",
                     chainId |-> QuoteChainId(in.dst_chain_id, in.chain_id)],
     rfqs |-> << [marketMakers |-> in.market_makers,
                  trader |-> trader,
                  baseToken |-> in.base_token,
                  quoteToken |-> in.quote_token,
                  baseTokenAmount |-> in.base_token_amount,
                  quoteTokenAmount |-> in.quote_token_amount,
                  effectiveTrader |-> EffectiveTrader(in.effective_trader, trader),
                  feesBps |-> in.feeBps] >>,
     calldata |-> in.debug]

\* What request_quote does up to the request: the task's new state.
request_quote_call(in) ==
    LET trader == Trader(in.wallet)
    IN  IF trader = None
        THEN \* raise InvalidUsage("Must specify wallet for trader.")
             Failed("request_quote", in, "InvalidUsage")
        ELSE Request("request_quote", in, "POST", "/taker/v3/rfq", None,
                     Some(request_quote_data(in, trader)))

\* request_quote that keeps the per-call wallet as the client's wallet.
request_quote_remembers(t, in) ==
    /\ CanCall(t)
    /\ tasks' = [tasks EXCEPT ![t] = request_quote_call(in)]
    /\ wallet' = Trader(in.wallet)
    /\ UNCHANGED <<ctor, status, headers, host, source, scope>>

\* request_quote, up to the request.
request_quote(t, in) ==
    /\ CanCall(t)
    /\ tasks' = [tasks EXCEPT ![t] = request_quote_call(in)]
    /\ UNCHANGED <<ctor, status, config, scope>>

\* request_quote from the response on: raise_for_status, return the json.
request_quote_result(r) == JsonBody(r)

\* ------------------------------------------------- the end of a request
\* The response r arrives on an open session and the coroutine runs to its
\* end, in the body of its `async with ... as r`.
Finish(t, r) ==
    /\ tasks[t].pc = "waiting"
    /\ sessions[tasks[t].req[1].sess] = "open"
    /\ tasks' = [tasks EXCEPT ![t].pc = "done", ![t].resp = Some(r),
                              ![t].outcome = Some(
                                  CASE tasks[t].op = "get_market_makers" -> get_market_makers_result(r)
                                    [] tasks[t].op = "get_price_levels" -> get_price_levels_result(r)
                                    [] OTHER -> request_quote_result(r))]
    /\ UNCHANGED <<ctor, status, config, scope>>

\* The request fails in the transport (no connection, or its session was
\* closed under it): aiohttp's ClientConnectionError reaches the caller.
TransportFailure(t) ==
    /\ tasks[t].pc = "waiting"
    /\ tasks' = [tasks EXCEPT ![t].pc = "done",
                              ![t].outcome = Some(Raise("ClientConnectionError"))]
    /\ UNCHANGED <<ctor, status, config, scope>>

\* The caller cancels the suspended task: CancelledError at the await.
Cancel(t) ==
    /\ tasks[t].pc = "waiting"
    /\ tasks' = [tasks EXCEPT ![t].pc = "done",
                              ![t].outcome = Some(Raise("CancelledError"))]
    /\ UNCHANGED <<ctor, status, config, scope>>

\* ------------------------------------------------------ specifications
ChainIds == {Int_(n) : n \in -1..MaxChainId} \cup {Float_(1), Str_(1)}
QuoteChainIds == {Int_(1), Int_(MaxChainId)}
DstChainIds == {None, Some(Int_(0)), Some(Int_(1)), Some(Int_(MaxChainId))}

QuoteInput(chain_id, dst_chain_id, wallet_arg, effective_trader) ==
    [chain_id |-> chain_id,
     wallet |-> wallet_arg,
     market_makers |-> Some(<<"mm5", "mm4">>),
     effective_trader |-> effective_trader,
     dst_chain_id |-> dst_chain_id,
     base_token |-> "0x2260fac5e5542a773aa44fbcfedf7c193bc2c599",
     quote_token |-> "0xa0b86991c6218b36c1d19d4a2e9eb0ce3606eb48",
     base_token_amount |-> None,
     quote_token_amount |-> Some("18364991"),
     feeBps |-> Some(2),
     debug |-> TRUE]

QuoteInputs ==
    {QuoteInput(c, d, w, e) : c \in QuoteChainIds, d \in DstChainIds,
                              w \in Wallets, e \in EffectiveTraders}

\* The inputs of the concurrent caller.
FewQuoteInputs == {QuoteInput(Int_(1), None, w, None) : w \in {None, Some("0xA")}}
FewResponses ==
    {Response(200, "application/json", GoodDoc), Response(404, "text/html", HtmlDoc)}

Init ==
    /\ ctor \in [mode : Modes, name : Names, auth_key : AuthKeys,
                 environment : Environments]
    /\ status = "pending"
    /\ headers = None
    /\ host = None
    /\ source = None
    /\ wallet = None
    /\ session = None
    /\ sessions = << >>
    /\ depth = 0
    /\ nested = FALSE
    /\ tasks = [t \in Tasks |-> Idle]

Construct == __init__(ctor.mode, ctor.name, ctor.auth_key, ctor.environment)

\* `async with HashflowApi(...) as api:` entered outside any other scope of
\* the client.
Enter == depth = 0 /\ __aenter__

\* One caller that awaits each call before the next and opens one scope
\* after the other.
Next ==
    \/ Construct
    \/ Enter
    \/ __aexit__
    \/ \E t \in SeqTasks, c \in ChainIds, w \in Wallets, m \in Makers :
           get_market_makers(t, c, w, m)
    \/ \E t \in SeqTasks, c \in ChainIds : get_price_levels(t, c, <<"mm4", "mm5">>)
    \/ \E t \in SeqTasks, in \in QuoteInputs : request_quote(t, in)
    \/ \E t \in SeqTasks, r \in Responses : Finish(t, r)
    \/ \E t \in SeqTasks : TransportFailure(t)
    \/ \E t \in SeqTasks : Cancel(t)

Spec == Init /\ [][Next]_vars

\* Two tasks of the caller over the same client, their calls interleaved,
\* and scopes entered at any time, also inside one another.
NextConcurrent ==
    \/ Construct
    \/ __aenter__
    \/ __aexit__
    \/ \E t \in Tasks : get_market_makers(t, Int_(1), None, Some("mm5"))
    \/ \E t \in Tasks : get_price_levels(t, Int_(1), <<"mm4", "mm5">>)
    \/ \E t \in Tasks, in \in FewQuoteInputs : request_quote(t, in)
    \/ \E t \in Tasks, r \in FewResponses : Finish(t, r)
    \/ \E t \in Tasks : TransportFailure(t)
    \/ \E t \in Tasks : Cancel(t)

SpecConcurrent == Init /\ [][NextConcurrent]_vars

\* ============================================================== claims
\* The calls a formula speaks of: the tasks that are suspended in op or
\* have finished it.
CallsOf(op) == {t \in Tasks : tasks[t].pc # "idle" /\ tasks[t].op = op}
Raised(t, exc) ==
    tasks[t].pc = "done" /\ tasks[t].outcome[1].kind = "raise"
        /\ tasks[t].outcome[1].exc = exc
PositiveInt(chain_id) == chain_id.t = "int" /\ chain_id.v >= 1

\* C1: request_quote raises InvalidUsage (the spec's UsageError), with no
\* request sent, exactly when the wallet argument and the client's default
\* wallet are both None; in every other case, on an open session, it sends
\* one POST to <host>/taker/v3/rfq whose rfqs[0].trader is the wallet
\* argument when given and the client's default wallet otherwise.
C1_TraderResolution ==
    \A t \in CallsOf("request_quote") :
        LET c == tasks[t]
            absent == c.in.wallet = None /\ wallet = None
        IN  /\ Raised(t, "InvalidUsage") <=> absent
            /\ absent => c.pc = "done" /\ c.nreq = 0 /\ c.req = None
            /\ (~absent /\ c.open) =>
                   /\ c.nreq = 1
                   /\ c.req[1].method = "POST"
                   /\ c.req[1].url = host[1] \o "/taker/v3/rfq"
                   /\ c.req[1].json[1].rfqs[1].trader =
                          (IF c.in.wallet # None THEN c.in.wallet ELSE wallet)

\* C1 witness: in taker mode, inside an open session, a request_quote
\* without a wallet has raised InvalidUsage.
C1_Witness ==
    /\ ctor.mode = "taker"
    /\ "t1" \in CallsOf("request_quote")
    /\ tasks["t1"].open
    /\ tasks["t1"].in.wallet = None
    /\ Raised("t1", "InvalidUsage")

\* C2: get_market_makers and get_price_levels called with a chain id that is
\* not a positive integer raise ValidationError and send no request: no GET
\* is ever in flight for such a call.
C2_InvalidChainId ==
    \A t \in CallsOf("get_market_makers") \cup CallsOf("get_price_levels") :
        ~PositiveInt(tasks[t].in.chain_id) =>
            /\ Raised(t, "ValidationError")
            /\ tasks[t].nreq = 0
            /\ tasks[t].req = None

\* C2 witness: inside an open session, get_market_makers(0) has raised
\* ValidationError.
C2_Witness ==
    /\ "t1" \in CallsOf("get_market_makers")
    /\ tasks["t1"].in.chain_id = Int_(0)
    /\ tasks["t1"].open
    /\ Raised("t1", "ValidationError")

\* C3: in every rfq body sent, baseChain.chainId is chain_id, and
\* quoteChain.chainId is dst_chain_id whenever dst_chain_id is supplied,
\* whatever its value, and chain_id only when it is not supplied.
C3_QuoteChain ==
    \A t \in CallsOf("request_quote") :
        tasks[t].req # None =>
            LET in == tasks[t].in
                data == tasks[t].req[1].json[1]
            IN  /\ data.baseChain.chainId = in.chain_id
                /\ data.quoteChain.chainId =
                       (IF in.dst_chain_id # None THEN in.dst_chain_id[1] ELSE in.chain_id)

\* C4: in every rfq body sent, rfqs[0].effectiveTrader is the
\* effective_trader argument whenever it is supplied, whatever its value,
\* and rfqs[0].trader when it is omitted.
C4_EffectiveTrader ==
    \A t \in CallsOf("request_quote") :
        tasks[t].req # None =>
            LET in == tasks[t].in
                rfq == tasks[t].req[1].json[1].rfqs[1]
            IN  rfq.effectiveTrader =
                    (IF in.effective_trader # None THEN in.effective_trader ELSE rfq.trader)

C6_NoSessionUsageError ==
    \A t \in Tasks :
        (/\ tasks[t].pc # "idle"
         /\ ~tasks[t].open
         /\ tasks[t].op \in {"get_market_makers", "get_price_levels"}
                => PositiveInt(tasks[t].in.chain_id)) =>
            /\ Raised(t, "InvalidUsage")
            /\ tasks[t].nreq = 0

\* C7, as claimed: whenever every scope entered has exited, every session
\* the client created is closed.
C7_AllSessionsReleased ==
    depth = 0 => \A i \in 1..Len(sessions) : sessions[i] = "closed"

\* C7, amended: provided no scope of the client was entered inside another
\* one (the client is not reentrant), whenever every scope entered has
\* exited, every session the client created is closed, also when an
\* operation inside a scope raised.
C7_SessionsReleasedUnlessNested ==
    (depth = 0 /\ ~nested) => \A i \in 1..Len(sessions) : sessions[i] = "closed"

\* C7 witness: a scope was entered, an operation inside it raised after its
\* request, and the scope has exited, with no scope ever nested.
C7_Witness ==
    /\ depth = 0
    /\ ~nested
    /\ Len(sessions) >= 1
    /\ tasks["t1"].pc = "done"
    /\ tasks["t1"].open
    /\ tasks["t1"].nreq = 1
    /\ tasks["t1"].outcome[1].kind = "raise"

\* C8: in every state of a constructed client, whatever the operations that
\* ran, succeeded, failed, were cancelled or are in flight together: in
\* wallet mode source is "api" and wallet is the name given; in taker mode
\* source is the name given and wallet is None; host is the URL of the
\* environment given and headers is the Authorization header given.
C8_ConfigurationFixed ==
    status = "constructed" =>
        /\ ctor.mode = "wallet" => source = Some("api") /\ wallet = Some(ctor.name)
        /\ ctor.mode = "taker" => source = Some(ctor.name) /\ wallet = None
        /\ ctor.environment = "production" => host = Some("https://api.hashflow.com")
        /\ ctor.environment = "staging" => host = Some("https://api-staging.hashflow.com")
        /\ headers = Some([Authorization |-> ctor.auth_key])

\* C8 witness: on a taker-mode client, one request_quote with a per-call
\* wallet is in flight while another call was cancelled.
C8_Witness ==
    /\ status = "constructed"
    /\ ctor.mode = "taker"
    /\ tasks["t1"].pc = "waiting"
    /\ tasks["t1"].op = "request_quote"
    /\ tasks["t1"].in.wallet # None
    /\ Raised("t2", "CancelledError")

\* C9: construction fails (InvalidUsage, the spec's ConfigurationError)
\* exactly when environment is not production or staging or mode is not
\* wallet or taker; after a failure no operation was ever invoked and no
\* session opened; a recognised pair constructs the client, production and
\* staging giving two distinct base URLs.
C9_Construction ==
    status # "pending" =>
        /\ status = "failed" <=>
               (ctor.environment \notin {"production", "staging"}
                    \/ ctor.mode \notin {"wallet", "taker"})
        /\ status = "failed" =>
               /\ \A t \in Tasks : tasks[t] = Idle
               /\ session = None /\ sessions = << >> /\ depth = 0
        /\ status = "constructed" =>
               /\ host \in {Some("https://api.hashflow.com"),
                            Some("https://api-staging.hashflow.com")}
               /\ host = Some("https://api.hashflow.com")
                      <=> ctor.environment = "production"

\* C9 witness: construction with a recognised environment and an
\* unrecognised mode has failed.
C9_Witness ==
    /\ status = "failed"
    /\ ctor.environment = "staging"
    /\ ctor.mode = "maker"

\* C10: get_market_makers with a positive integer chain id, on an open
\* session, sends one GET to <host>/taker/v3/market-makers whose params are
\* exactly source (the client's), baseChainType "evm", baseChainId (the
\* chain id in decimal), wallet if and only if the wallet argument is given
\* and marketMaker if and only if the market_maker argument is given; a
\* 200 response with a marketMakers array makes it return, and what it
\* returns is that array, in its order.
C10_MarketMakers ==
    \A t \in CallsOf("get_market_makers") :
        LET c == tasks[t]
        IN  (PositiveInt(c.in.chain_id) /\ c.open) =>
                /\ c.nreq = 1
                /\ c.req[1].method = "GET"
                /\ c.req[1].url = host[1] \o "/taker/v3/market-makers"
                /\ LET params == c.req[1].params[1]
                   IN  /\ DOMAIN params =
                              {"source", "baseChainType", "baseChainId"}
                                  \cup (IF c.in.wallet # None THEN {"wallet"} ELSE {})
                                  \cup (IF c.in.market_maker # None THEN {"marketMaker"} ELSE {})
                       /\ params["source"] = source[1]
                       /\ params["baseChainType"] = "evm"
                       /\ params["baseChainId"] = IntToStr(c.in.chain_id.v)
                       /\ c.in.wallet # None => params["wallet"] = c.in.wallet[1]
                       /\ c.in.market_maker # None =>
                              params["marketMaker"] = c.in.market_maker[1]
                /\ (c.pc = "done" /\ c.resp # None) =>
                       LET r == c.resp[1]
                           o == c.outcome[1]
                       IN  /\ (r.status = 200 /\ r.ctype = "application/json"
                                  /\ "marketMakers" \in DOMAIN r.body) => o.kind = "return"
                           /\ o.kind = "return" => o.value = Some(r.body["marketMakers"])

\* C10 witness: on a wallet-mode client, get_market_makers(1) without a
\* wallet argument and with a market maker has returned the array sent.
C10_Witness ==
    /\ ctor.mode = "wallet"
    /\ "t1" \in CallsOf("get_market_makers")
    /\ tasks["t1"].in = [chain_id |-> Int_(1), wallet |-> None, market_maker |-> Some("mm5")]
    /\ tasks["t1"].pc = "done"
    /\ tasks["t1"].outcome[1].kind = "return"
    /\ tasks["t1"].outcome[1].value = Some(<<"mm5", "mm4">>)

====
